---- MODULE Spec2Model ----
(***************************************************************************)
(* Route acquisition of Dronne RuralNav: the offline topology graph, the   *)
(* A* pathfinder (services/offlineRoutingEngine.ts) and the network-first  *)
(* orchestrator getRoute (services/routingService.ts).                     *)
(*                                                                         *)
(* Numbers.  Coordinates are integers in units of 1e-7 degree (about one   *)
(* centimetre, fine enough for one step of the navigation loop).           *)
(* Distances are integers in decimetres.  JavaScript's Infinity is the     *)
(* sentinel Infinity below; sums saturate.                                 *)
(***************************************************************************)
EXTENDS Integers, Sequences, FiniteSets, TLC

VARIABLES graph, online, call, ref, pf,
          app, nextRoutePointIndexRef, requests, hist, visualHeadingRef

\* The state of the navigation loop (the App component).
loopVars == <<app, nextRoutePointIndexRef, requests, hist>>

vars == <<graph, online, call, ref, pf, loopVars, visualHeadingRef>>

(***************************************************************************)
(* Bounds of the model.                                                    *)
(***************************************************************************)
MaxWaypoints == 2
MaxGeometry == 2
MaxChain == 3

(***************************************************************************)
(* Geodesic primitive.                                                     *)
(***************************************************************************)
Infinity == 1000000000
LatDm == 111
LngDm == 99

Coord(lat, lng) == [lat |-> lat, lng |-> lng]

Abs(x) == IF x < 0 THEN -x ELSE x

\* The integer square root of n by Newton's iteration from a guess x that is
\* not below it.
RECURSIVE ISqrtFrom(_, _)
ISqrtFrom(n, x) ==
  IF x = 0 THEN 0
  ELSE LET y == (x + n \div x) \div 2
       IN IF y >= x THEN x ELSE ISqrtFrom(n, y)

calculateDistanceNorthEastOnly(p1, p2) ==
  LET dLat == ((IF p2.lat > p1.lat THEN p2.lat - p1.lat ELSE 0) * LatDm)
                \div 1000
      dLon == ((IF p2.lng > p1.lng THEN p2.lng - p1.lng ELSE 0) * LngDm)
                \div 1000
  IN ISqrtFrom(dLat * dLat + dLon * dLon, dLat + dLon)

\* calculateDistance: the haversine distance, here for the few kilometres of
\* the demo area as the planar distance at latitude 26.9 N, rounded down to
\* decimetres (1e-4 degree is LatDm dm of latitude and LngDm dm of longitude).
\* The haversine terms are squares of sines, so each difference enters by
\* its magnitude.
calculateDistance(p1, p2) ==
  LET dLat == (Abs(p2.lat - p1.lat) * LatDm) \div 1000
      dLon == (Abs(p2.lng - p1.lng) * LngDm) \div 1000
  IN ISqrtFrom(dLat * dLat + dLon * dLon, dLat + dLon)

(***************************************************************************)
(* Offline topology graph.  A Map keeps insertion order, so the graph is a *)
(* sequence of nodes in the order of RAW_NODES.                            *)
(***************************************************************************)
RAW_NODES ==
  << [id |-> "n1",  lat |-> 269124000, lng |-> 757873000],
     [id |-> "n2",  lat |-> 269124000, lng |-> 757923000],
     [id |-> "n3",  lat |-> 269124000, lng |-> 757823000],
     [id |-> "n4",  lat |-> 269169000, lng |-> 757873000],
     [id |-> "n5",  lat |-> 269169000, lng |-> 757923000],
     [id |-> "n6",  lat |-> 269169000, lng |-> 757823000],
     [id |-> "n7",  lat |-> 269079000, lng |-> 757873000],
     [id |-> "n8",  lat |-> 269079000, lng |-> 757923000],
     [id |-> "n9",  lat |-> 269079000, lng |-> 757823000],
     [id |-> "n10", lat |-> 269124000, lng |-> 757973000],
     [id |-> "n11", lat |-> 269169000, lng |-> 757973000],
     [id |-> "n12", lat |-> 269079000, lng |-> 757973000],
     [id |-> "n13", lat |-> 269124000, lng |-> 757773000],
     [id |-> "n14", lat |-> 269169000, lng |-> 757773000],
     [id |-> "n15", lat |-> 269079000, lng |-> 757773000],
     [id |-> "n16", lat |-> 269200000, lng |-> 757900000],
     [id |-> "n17", lat |-> 269050000, lng |-> 757850000] >>

Edge(id1, id2, surface, isHilly) ==
  [id1 |-> id1, id2 |-> id2, surface |-> surface, isHilly |-> isHilly]

\* The addEdge calls of the module body, in program order.
EDGE_CALLS ==
  << Edge("n3", "n1", "paved", FALSE),   Edge("n1", "n2", "paved", FALSE),
     Edge("n2", "n10", "paved", FALSE),  Edge("n13", "n3", "unpaved", TRUE),
     Edge("n6", "n4", "paved", FALSE),   Edge("n4", "n5", "paved", FALSE),
     Edge("n5", "n11", "paved", FALSE),  Edge("n14", "n6", "unpaved", FALSE),
     Edge("n9", "n7", "unpaved", FALSE), Edge("n7", "n8", "paved", FALSE),
     Edge("n8", "n12", "unpaved", TRUE), Edge("n15", "n9", "unpaved", TRUE),
     Edge("n6", "n3", "paved", FALSE),   Edge("n3", "n9", "unpaved", FALSE),
     Edge("n9", "n15", "unpaved", FALSE),
     Edge("n4", "n1", "paved", FALSE),   Edge("n1", "n7", "paved", FALSE),
     Edge("n7", "n17", "unpaved", FALSE),
     Edge("n5", "n2", "paved", FALSE),   Edge("n2", "n8", "paved", FALSE),
     Edge("n11", "n10", "unpaved", FALSE), Edge("n10", "n12", "unpaved", FALSE),
     Edge("n14", "n13", "unpaved", FALSE), Edge("n13", "n15", "unpaved", FALSE),
     Edge("n4", "n16", "unpaved", TRUE), Edge("n16", "n5", "unpaved", FALSE) >>

NodeIds == { RAW_NODES[i].id : i \in 1..Len(RAW_NODES) }

\* graph.get(id) on a graph g; callers only pass ids that g holds.
GraphHas(g, id) == \E i \in 1..Len(g) : g[i].id = id
GraphGet(g, id) == g[CHOOSE i \in 1..Len(g) : g[i].id = id]

\* "Populate nodes": every raw node with an empty neighbor list.
PopulateNodes ==
  [i \in 1..Len(RAW_NODES) |->
     [id |-> RAW_NODES[i].id, lat |-> RAW_NODES[i].lat,
      lng |-> RAW_NODES[i].lng, neighbors |-> <<>>]]

\* addEdge with the entry pushed on the first endpoint only.
addEdgeOneWay(g, e) ==
  IF GraphHas(g, e.id1) /\ GraphHas(g, e.id2)
  THEN LET dist == calculateDistance(GraphGet(g, e.id1), GraphGet(g, e.id2))
           entry(to) == [nodeId |-> to, weight |-> dist,
                         surface |-> e.surface, isHilly |-> e.isHilly]
       IN [i \in 1..Len(g) |->
             IF g[i].id = e.id1
             THEN [g[i] EXCEPT !.neighbors = Append(@, entry(e.id2))]
             ELSE g[i]]
  ELSE g

\* addEdge: one neighbor entry pushed on each endpoint, both with the distance
\* between the endpoints as weight; nothing happens when an id is unknown.
addEdge(g, e) ==
  IF GraphHas(g, e.id1) /\ GraphHas(g, e.id2)
  THEN LET dist == calculateDistance(GraphGet(g, e.id1), GraphGet(g, e.id2))
           entry(to) == [nodeId |-> to, weight |-> dist,
                         surface |-> e.surface, isHilly |-> e.isHilly]
           push1 == [i \in 1..Len(g) |->
                       IF g[i].id = e.id1
                       THEN [g[i] EXCEPT !.neighbors = Append(@, entry(e.id2))]
                       ELSE g[i]]
       IN [i \in 1..Len(g) |->
             IF push1[i].id = e.id2
             THEN [push1[i] EXCEPT !.neighbors = Append(@, entry(e.id1))]
             ELSE push1[i]]
  ELSE g

RECURSIVE AddEdges(_, _)
AddEdges(g, k) ==
  IF k = 0 THEN g ELSE addEdge(AddEdges(g, k - 1), EDGE_CALLS[k])

\* The graph once the module body has run.
BuiltGraph == AddEdges(PopulateNodes, Len(EDGE_CALLS))

(***************************************************************************)
(* Pathfinder.                                                             *)
(***************************************************************************)
NoNode == "null"

\* JavaScript's (x || Infinity) on a number: 0 is falsy, so 0 reads as Infinity.
OrInfinity(x) == IF x = 0 THEN Infinity ELSE x

\* Addition of scores, saturating at Infinity.
Plus(a, b) == IF a >= Infinity \/ b >= Infinity THEN Infinity ELSE a + b

NoOptions ==
  [defined |-> FALSE, preferPaved |-> FALSE, avoidHills |-> FALSE,
   allowHighways |-> FALSE]

\* RoutingOptions | undefined
OptionSets ==
  {NoOptions} \cup [defined : {TRUE}, preferPaved : BOOLEAN,
                    avoidHills : BOOLEAN, allowHighways : BOOLEAN]

\* The forEach of findNearestNode from node i on: a node replaces the closest
\* one only when it is strictly nearer.
RECURSIVE NearestScan(_, _, _, _)
NearestScan(target, i, closest, minDist) ==
  IF i > Len(graph) THEN closest
  ELSE LET dist == calculateDistance(target, graph[i])
       IN IF dist < minDist
          THEN NearestScan(target, i + 1, graph[i].id, dist)
          ELSE NearestScan(target, i + 1, closest, minDist)

findNearestNode(target) == NearestScan(target, 1, NoNode, Infinity)

\* The dynamic cost of one neighbor entry under the preferences.
EdgeCostLargestPenalty(neighbor, options) ==
  LET c1 == IF options.defined /\ options.preferPaved
               /\ neighbor.surface = "unpaved"
            THEN neighbor.weight * 3 ELSE neighbor.weight
  IN IF options.defined /\ options.avoidHills /\ neighbor.isHilly
     THEN neighbor.weight * 5
     ELSE IF options.defined /\ ~options.allowHighways
             /\ neighbor.surface = "paved"
     THEN neighbor.weight * 2 ELSE c1

EdgeCost(neighbor, options) ==
  LET c1 == IF options.defined /\ options.preferPaved
               /\ neighbor.surface = "unpaved"
            THEN neighbor.weight * 3 ELSE neighbor.weight
      c2 == IF options.defined /\ options.avoidHills /\ neighbor.isHilly
            THEN c1 * 5 ELSE c1
  IN IF options.defined /\ ~options.allowHighways /\ neighbor.surface = "paved"
     THEN c2 * 2 ELSE c2

\* Array.prototype.sort with the comparator of line 153 is a stable sort on
\* OrInfinity(fScore); two Infinity keys compare as NaN, that is as equal.
RECURSIVE InsertByF(_, _, _)
InsertByF(sorted, id, fScore) ==
  IF sorted = <<>> THEN <<id>>
  ELSE LET last == sorted[Len(sorted)]
       IN IF OrInfinity(fScore[last]) <= OrInfinity(fScore[id])
          THEN Append(sorted, id)
          ELSE Append(InsertByF(SubSeq(sorted, 1, Len(sorted) - 1), id, fScore),
                      last)

RECURSIVE SortByF(_, _)
SortByF(openSet, fScore) ==
  IF openSet = <<>> THEN <<>>
  ELSE InsertByF(SortByF(SubSeq(openSet, 1, Len(openSet) - 1), fScore),
                 openSet[Len(openSet)], fScore)

SeqIncludes(s, x) == \E i \in 1..Len(s) : s[i] = x

MapSet(m, k, v) == [x \in DOMAIN m \cup {k} |-> IF x = k THEN v ELSE m[x]]

\* The body of the for loop over current.neighbors, for one neighbor.
RelaxNeighbor(s, currentId, neighbor, endNode, options) ==
  LET edgeCost == EdgeCost(neighbor, options)
      tentativeG == Plus(OrInfinity(s.gScore[currentId]), edgeCost)
  IN IF tentativeG < OrInfinity(s.gScore[neighbor.nodeId])
     THEN [openSet |-> IF SeqIncludes(s.openSet, neighbor.nodeId)
                       THEN s.openSet
                       ELSE Append(s.openSet, neighbor.nodeId),
           cameFrom |-> MapSet(s.cameFrom, neighbor.nodeId, currentId),
           gScore |-> [s.gScore EXCEPT ![neighbor.nodeId] = tentativeG],
           fScore |-> [s.fScore EXCEPT ![neighbor.nodeId] =
                         Plus(tentativeG,
                              calculateDistance(GraphGet(graph, neighbor.nodeId),
                                                GraphGet(graph, endNode)))]]
     ELSE s

RECURSIVE RelaxAll(_, _, _, _, _, _)
RelaxAll(s, currentId, neighbors, k, endNode, options) ==
  IF k > Len(neighbors) THEN s
  ELSE RelaxAll(RelaxNeighbor(s, currentId, neighbors[k], endNode, options),
                currentId, neighbors, k + 1, endNode, options)

\* reconstructPath's while loop: the coordinates of curr and of the nodes its
\* back-pointers lead to, each put in front of the path.
RECURSIVE WalkBack(_, _, _)
WalkBack(cameFrom, curr, path) ==
  LET node == GraphGet(graph, curr)
      longer == <<Coord(node.lat, node.lng)>> \o path
  IN IF curr \in DOMAIN cameFrom
     THEN WalkBack(cameFrom, cameFrom[curr], longer)
     ELSE longer

reconstructPathWalksTwice(cameFrom, currentId, originalStart, originalEnd) ==
  <<originalStart>> \o WalkBack(cameFrom, currentId, <<>>)
    \o WalkBack(cameFrom, currentId, <<>>) \o <<originalEnd>>

reconstructPathFromNode(cameFrom, currentId, originalStart, originalEnd) ==
  WalkBack(cameFrom, currentId, <<>>) \o <<originalEnd>>

reconstructPathDropsStartNode(cameFrom, currentId, originalStart, originalEnd) ==
  <<originalStart>> \o Tail(WalkBack(cameFrom, currentId, <<>>))
    \o <<originalEnd>>

reconstructPath(cameFrom, currentId, originalStart, originalEnd) ==
  <<originalStart>> \o WalkBack(cameFrom, currentId, <<>>) \o <<originalEnd>>

\* The ids reconstructPath walks, start node first.
RECURSIVE NodePath(_, _)
NodePath(cameFrom, curr) ==
  IF curr \in DOMAIN cameFrom
  THEN Append(NodePath(cameFrom, cameFrom[curr]), curr)
  ELSE <<curr>>

\* The while loop over the open set.  The result names the return statement
\* that produced the route and counts the nodes popped.
RECURSIVE SearchLoop(_, _, _, _, _, _)
SearchLoop(s, endNode, options, start, end, popped) ==
  IF s.openSet = <<>>
  THEN [route |-> <<start, end>>, exit |-> "exhausted", nodePath |-> <<>>,
        popped |-> popped]
  ELSE LET sorted == SortByF(s.openSet, s.fScore)
           currentId == Head(sorted)
           rest == [s EXCEPT !.openSet = Tail(sorted)]
       IN IF currentId = endNode
          THEN [route |-> reconstructPath(s.cameFrom, currentId, start, end),
                exit |-> "found", nodePath |-> NodePath(s.cameFrom, currentId),
                popped |-> popped + 1]
          ELSE SearchLoop(RelaxAll(rest, currentId,
                                   GraphGet(graph, currentId).neighbors, 1,
                                   endNode, options),
                          endNode, options, start, end, popped + 1)

SameNodeNeverShortcuts(startNode, endNode) == FALSE

\* Line 138: start and end snap to the same node.
SameNode(startNode, endNode) == startNode = endNode

\* calculateOfflineRoute, with the return statement taken.
OfflineSearch(start, end, options) ==
  LET startNode == findNearestNode(start)
      endNode == findNearestNode(end)
      ids == { graph[i].id : i \in 1..Len(graph) }
  IN IF startNode = NoNode \/ endNode = NoNode
     THEN [route |-> <<start, end>>, exit |-> "unresolved", nodePath |-> <<>>,
           popped |-> 0]
     ELSE IF SameNode(startNode, endNode)
     THEN [route |-> <<start, end>>, exit |-> "same", nodePath |-> <<>>,
           popped |-> 0]
     ELSE SearchLoop(
            [openSet |-> <<startNode>>,
             cameFrom |-> [x \in {} |-> NoNode],
             gScore |-> [x \in ids |-> IF x = startNode THEN 0 ELSE Infinity],
             fScore |-> [x \in ids |->
                           IF x = startNode
                           THEN calculateDistance(GraphGet(graph, startNode),
                                                  GraphGet(graph, endNode))
                           ELSE Infinity]],
            endNode, options, start, end, 0)

calculateOfflineRoute(start, end, options) ==
  OfflineSearch(start, end, options).route

(***************************************************************************)
(* Route acquisition orchestrator.                                         *)
(***************************************************************************)
TransportModes == {"WALK", "BIKE", "CAR"}

\* The OSRM profile of a transport mode.
Profile(mode) ==
  IF mode = "BIKE" THEN "bike" ELSE IF mode = "WALK" THEN "foot" ELSE "driving"

\* The coordinate list of the request URL: start, waypoints, end, each
\* written longitude first.
RequestPoints(start, waypoints, end) ==
  LET points == <<start>> \o waypoints \o <<end>>
  IN [i \in 1..Len(points) |-> <<points[i].lng, points[i].lat>>]

SegmentAppendKeepsJunction(fullRoute, segmentRoute, i) ==
  fullRoute \o segmentRoute

\* Lines 88-92: every segment but the first loses its first point.
SegmentAppend(fullRoute, segmentRoute, i) ==
  IF i > 0 THEN fullRoute \o Tail(segmentRoute) ELSE fullRoute \o segmentRoute

\* The for loop of calculateOfflineRouteWithWaypoints from segment i on
\* (i counts from 0 as in the source).
RECURSIVE ChainSegments(_, _, _, _)
ChainSegments(allPoints, i, fullRoute, options) ==
  IF i >= Len(allPoints) - 1 THEN fullRoute
  ELSE ChainSegments(allPoints, i + 1,
         SegmentAppend(fullRoute,
                       calculateOfflineRoute(allPoints[i + 1], allPoints[i + 2],
                                             options),
                       i),
         options)

calculateOfflineRouteWithWaypointsKeepsLastRoute(start, end, waypoints, options) ==
  ChainSegments(<<start>> \o waypoints \o <<end>>, 0, call.result, options)

calculateOfflineRouteWithWaypoints(start, end, waypoints, options) ==
  ChainSegments(<<start>> \o waypoints \o <<end>>, 0, <<>>, options)

SkipNetworkNever(onLine) == FALSE

\* Line 23: the local engine is used at once when the browser reports offline.
SkipNetwork(onLine) == ~onLine

FallbackIgnoresWaypoints(start, end, waypoints, options) ==
  calculateOfflineRoute(start, end, options)

\* The catch block, lines 60-66.
Fallback(start, end, waypoints, options) ==
  calculateOfflineRouteWithWaypoints(start, end, waypoints, options)

\* A parsed response body.  isObject is false for a body such as null, on
\* which reading .routes throws; a route may lack its geometry and a geometry
\* its coordinates.  Coordinates are <<lng, lat>> pairs.
RouteObject(hasGeometry, hasCoordinates, coordinates) ==
  [hasGeometry |-> hasGeometry, hasCoordinates |-> hasCoordinates,
   coordinates |-> coordinates]

Payload(isObject, hasRoutes, routes) ==
  [isObject |-> isObject, hasRoutes |-> hasRoutes, routes |-> routes]

\* Lines 50-58: the route of the response, or thrown when the body has none.
ParseResponse(data) ==
  IF ~data.isObject THEN [thrown |-> TRUE, route |-> <<>>]
  ELSE IF data.hasRoutes /\ Len(data.routes) > 0
  THEN LET first == data.routes[1]
       IN IF ~first.hasGeometry \/ ~first.hasCoordinates
          THEN [thrown |-> TRUE, route |-> <<>>]
          ELSE [thrown |-> FALSE,
                route |-> [i \in 1..Len(first.coordinates) |->
                             Coord(first.coordinates[i][2],
                                   first.coordinates[i][1])]]
  ELSE [thrown |-> TRUE, route |-> <<>>]

(***************************************************************************)
(* Inputs.                                                                 *)
(***************************************************************************)
DEFAULT_START_LOCATION == Coord(269124000, 757873000)
NearStart == Coord(269130000, 757880000)
NearEast == Coord(269120000, 757930000)
NearNorthEast == Coord(269175000, 757915000)
AtDiagonal == Coord(269200000, 757900000)
AtFarWest == Coord(269079000, 757773000)
AtWest == Coord(269124000, 757823000)
AtSouth == Coord(269079000, 757873000)

\* Arguments of getRoute.
Places == {DEFAULT_START_LOCATION, NearEast, NearNorthEast, AtDiagonal}
AllPreferences ==
  [defined |-> TRUE, preferPaved |-> TRUE, avoidHills |-> TRUE,
   allowHighways |-> FALSE]
CallOptions == {NoOptions, AllPreferences}
WaypointPlaces == {NearEast, NearNorthEast}
WaypointLists == UNION { [1..n -> WaypointPlaces] : n \in 0..MaxWaypoints }

\* Arguments of the pathfinder.
PathPlaces ==
  {DEFAULT_START_LOCATION, NearStart, NearEast, NearNorthEast, AtDiagonal,
   AtFarWest, AtWest, AtSouth}

\* Response bodies.
GeometryPairs == { <<757873000, 269124000>>, <<757923000, 269124000>> }
CoordinateLists == UNION { [1..n -> GeometryPairs] : n \in 0..MaxGeometry }
NoData == Payload(FALSE, FALSE, <<>>)
Payloads ==
  { NoData,
    Payload(TRUE, FALSE, <<>>),
    Payload(TRUE, TRUE, <<>>),
    Payload(TRUE, TRUE, <<RouteObject(FALSE, FALSE, <<>>)>>),
    Payload(TRUE, TRUE, <<RouteObject(TRUE, FALSE, <<>>)>>) }
  \cup { Payload(TRUE, TRUE, <<RouteObject(TRUE, TRUE, cs)>>) :
           cs \in CoordinateLists }

(***************************************************************************)
(* The navigation loop's values (unnamed/part_004, the App component).     *)
(* Speeds are integers in mm/s, times in ms, angles in tenths of a degree, *)
(* accelerations in mm/s^2.                                                *)
(***************************************************************************)
WALKING_SPEED_MPS == 1400
BIKE_SPEED_MPS == 5500
CAR_SPEED_MPS == 11100

\* nextManeuver === null
NoManeuver == [type |-> "none", distance |-> 0]

\* The useState initial values, lines 21-82.  targetLocation is the empty
\* sequence for null and a one-element sequence otherwise.  frame is the
\* time between two animation frames of the display, renderPending tells
\* that a state update made by an effect has not been rendered yet.
InitialApp ==
  [hasStarted |-> FALSE, frame |-> 0,
   currentLocation |-> DEFAULT_START_LOCATION, targetLocation |-> <<>>,
   waypoints |-> <<>>, routeCoordinates |-> <<>>, nextRoutePointIndex |-> 1,
   gpsActive |-> TRUE, currentSpeed |-> 0, mode |-> "WALK",
   navState |-> "IDLE",
   sensors |-> [alpha |-> 0, accX |-> 0, accY |-> 0],
   calibration |-> [alphaOffset |-> 0, accXOffset |-> 0, accYOffset |-> 0],
   nextManeuver |-> NoManeuver,
   routingOptions |-> [defined |-> TRUE, preferPaved |-> TRUE,
                       avoidHills |-> FALSE, allowHighways |-> TRUE],
   isSimulatingMove |-> FALSE, renderPending |-> FALSE]

\* What a consumer of the index last read: whether it ran, whether it was
\* the first run on a newly installed route, and the index it used.
NoRead == [ran |-> FALSE, first |-> FALSE, idx |-> 0]

\* What the last frame computed: the branch of animate it took ("follow" for
\* route following, "free" for free movement and dead reckoning, "idle"
\* otherwise), calculatedSpeed, calculatedHeading and targetSpeed, the speed
\* state and the position it started from, the position it set, the sensor
\* readings and the calibration it read, whether it reckoned from the
\* sensors (GPS off, no simulated movement), and the heading of the frame
\* before when that frame followed the route too (none or one).
NoComputed ==
  [kind |-> "none", speed |-> 0, heading |-> 0, targetSpeed |-> 0,
   speedBefore |-> 0, from |-> DEFAULT_START_LOCATION,
   to |-> DEFAULT_START_LOCATION,
   sensors |-> [alpha |-> 0, accX |-> 0, accY |-> 0],
   calibration |-> [alphaOffset |-> 0, accXOffset |-> 0, accYOffset |-> 0],
   reckoned |-> FALSE, prev |-> <<>>]

\* History of the loop: the number of handleSetDestination calls so far, the
\* call whose route is installed (0 for none), the arguments of the latest
\* call (none or one), whether the last call cleared
\* an installed route, the ticks taken, whether the installed route is still
\* unread by the tick loop, and the last reads of the two consumers.
InitialHist ==
  [issued |-> 0, installed |-> 0, latest |-> <<>>, cleared |-> FALSE,
   ticks |-> 0, unticked |-> FALSE, detection |-> NoRead, tickRead |-> NoRead,
   computed |-> NoComputed]

(***************************************************************************)
(* State.                                                                  *)
(*   graph   the module-level Map of offlineRoutingEngine.ts               *)
(*   online  navigator.onLine                                              *)
(*   call    the getRoute call in progress or last returned                *)
(*   ref     an earlier returned call, kept for comparison                 *)
(*   pf      the last direct invocation of a pathfinder function           *)
(*   app     the App component's state as of the last render               *)
(*   nextRoutePointIndexRef  nextRoutePointIndexRef.current                *)
(*   requests  the handleSetDestination calls that await getRoute          *)
(*   hist    history of the navigation loop                                *)
(*   visualHeadingRef  visualHeadingRef.current of the MapView component   *)
(***************************************************************************)
NoRequest == [profile |-> "", points |-> <<>>]
NoOutcome == [kind |-> "none", data |-> NoData]

IdleCall ==
  [pc |-> "idle", start |-> DEFAULT_START_LOCATION,
   end |-> DEFAULT_START_LOCATION, mode |-> "CAR", options |-> NoOptions,
   waypoints |-> <<>>, sawOnline |-> TRUE, requests |-> 0,
   request |-> NoRequest, outcome |-> NoOutcome, result |-> <<>>]

NoRef == [set |-> FALSE, key |-> <<>>, result |-> <<>>]

NoResult == [route |-> <<>>, exit |-> "none", nodePath |-> <<>>, popped |-> 0]

NoPf ==
  [op |-> "none", start |-> DEFAULT_START_LOCATION,
   end |-> DEFAULT_START_LOCATION, options |-> NoOptions, chain |-> <<>>,
   out |-> NoResult]

Init ==
  /\ graph = BuiltGraph
  /\ online \in BOOLEAN
  /\ call = IdleCall
  /\ ref = NoRef
  /\ pf = NoPf
  /\ app = InitialApp
  /\ nextRoutePointIndexRef = 1
  /\ requests = <<>>
  /\ hist = InitialHist
  /\ visualHeadingRef = 0

(***************************************************************************)
(* getRoute.                                                               *)
(***************************************************************************)
\* The call returns the route; the outcome tells how the request ended.
Returned(c, kind, data, route) ==
  [c EXCEPT !.pc = "returned", !.outcome = [kind |-> kind, data |-> data],
            !.result = route]

\* getRoute up to its first await: lines 20-42.
GetRouteStep(start, end, mode, options, waypoints) ==
  /\ LET entered == [IdleCall EXCEPT !.start = start, !.end = end,
                                     !.mode = mode, !.options = options,
                                     !.waypoints = waypoints,
                                     !.sawOnline = online]
     IN IF SkipNetwork(online)
        THEN call' = Returned(entered, "offline", NoData,
                       calculateOfflineRouteWithWaypoints(start, end, waypoints,
                                                          options))
        ELSE call' = [entered EXCEPT
                        !.pc = "awaitFetch",
                        !.requests = @ + 1,
                        !.request = [profile |-> Profile(mode),
                                     points |-> RequestPoints(start, waypoints,
                                                              end)]]
  /\ UNCHANGED <<graph, online, pf, loopVars, visualHeadingRef>>

GetRoute ==
  \E start \in Places, end \in Places, mode \in TransportModes,
     options \in CallOptions, waypoints \in WaypointLists :
    /\ call.pc = "idle"
    /\ GetRouteStep(start, end, mode, options, waypoints)
    /\ UNCHANGED ref

\* fetch rejects: the 3 s AbortSignal fired, or the transport failed.
FetchRejects ==
  \E kind \in {"timeout", "transport"} :
    /\ call.pc = "awaitFetch"
    /\ call' = Returned(call, kind, NoData,
                 Fallback(call.start, call.end, call.waypoints, call.options))
    /\ UNCHANGED <<graph, online, ref, pf, loopVars, visualHeadingRef>>

\* fetch resolves with a response; a status that is not ok is thrown.
FetchResolves ==
  \E ok \in BOOLEAN :
    /\ call.pc = "awaitFetch"
    /\ IF ok
       THEN call' = [call EXCEPT !.pc = "awaitJson"]
       ELSE call' = Returned(call, "notOk", NoData,
                      Fallback(call.start, call.end, call.waypoints,
                               call.options))
    /\ UNCHANGED <<graph, online, ref, pf, loopVars, visualHeadingRef>>

\* response.json() rejects: the body is no JSON, or the signal fired while
\* the body was read.
JsonRejects ==
  \E kind \in {"bodySyntax", "bodyTimeout"} :
    /\ call.pc = "awaitJson"
    /\ call' = Returned(call, kind, NoData,
                 Fallback(call.start, call.end, call.waypoints, call.options))
    /\ UNCHANGED <<graph, online, ref, pf, loopVars, visualHeadingRef>>

\* response.json() resolves with a parsed body of the set bodies: lines 48-58.
JsonResolvesWith(bodies) ==
  \E data \in bodies :
    /\ call.pc = "awaitJson"
    /\ LET parsed == ParseResponse(data)
       IN IF parsed.thrown
          THEN call' = Returned(call, "body", data,
                         Fallback(call.start, call.end, call.waypoints,
                                  call.options))
          ELSE call' = Returned(call, "body", data, parsed.route)
    /\ UNCHANGED <<graph, online, ref, pf, loopVars, visualHeadingRef>>

JsonResolves == JsonResolvesWith(Payloads)

\* The caller's continuation takes the route; the call is over.
CallerResumes ==
  /\ call.pc = "returned"
  /\ call' = IdleCall
  /\ UNCHANGED <<graph, online, ref, pf, loopVars, visualHeadingRef>>

\* The browser's online / offline event.
ConnectivityChanges ==
  /\ online' = ~online
  /\ UNCHANGED <<graph, call, ref, pf, loopVars, visualHeadingRef>>

Next ==
  \/ GetRoute
  \/ FetchRejects
  \/ FetchResolves
  \/ JsonRejects
  \/ JsonResolves
  \/ CallerResumes
  \/ ConnectivityChanges

Spec == Init /\ [][Next]_vars

(***************************************************************************)
(* Calls that follow each other, one of them remembered (SpecIdem).        *)
(***************************************************************************)
RepeatedEnds == {NearEast, AtDiagonal}
RepeatedModes == {"CAR"}
RepeatedWaypoints == { <<>>, <<NearNorthEast>> }
RepeatedPayloads ==
  { Payload(TRUE, TRUE, <<>>),
    Payload(TRUE, TRUE,
            <<RouteObject(TRUE, TRUE,
                          << <<757873000, 269124000>>, <<757923000, 269124000>> >>)>>) }

\* What two calls must share to be the same call: the arguments, the
\* connectivity seen and the outcome of the request.
Key(c) ==
  <<c.start, c.end, c.mode, c.options, c.waypoints, c.sawOnline, c.outcome>>

\* The next call starts once the last one has returned; the returned call
\* may be the one that is remembered.
GetRouteAgain ==
  \E end \in RepeatedEnds, mode \in RepeatedModes, options \in CallOptions,
     waypoints \in RepeatedWaypoints, remember \in BOOLEAN :
    /\ call.pc \in {"idle", "returned"}
    /\ GetRouteStep(DEFAULT_START_LOCATION, end, mode, options, waypoints)
    /\ ref' = IF remember /\ call.pc = "returned" /\ ~ref.set
              THEN [set |-> TRUE, key |-> Key(call), result |-> call.result]
              ELSE ref

JsonResolvesRepeated == JsonResolvesWith(RepeatedPayloads)

NextIdem ==
  \/ GetRouteAgain
  \/ FetchRejects
  \/ FetchResolves
  \/ JsonRejects
  \/ JsonResolvesRepeated
  \/ ConnectivityChanges

SpecIdem == Init /\ [][NextIdem]_vars

(***************************************************************************)
(* The pathfinder's functions, invoked directly.                           *)
(***************************************************************************)
Neighbours(id) ==
  LET ns == GraphGet(graph, id).neighbors
  IN { ns[i].nodeId : i \in 1..Len(ns) }

Elements(s) == { s[i] : i \in 1..Len(s) }

\* The node paths of k nodes along edges of the graph, no node twice.
RECURSIVE Chains(_)
Chains(k) ==
  IF k = 1 THEN { <<graph[i].id>> : i \in 1..Len(graph) }
  ELSE UNION { { Append(c, x) : x \in Neighbours(c[Len(c)]) \ Elements(c) } :
               c \in Chains(k - 1) }

\* The back-pointers a search leaves when it reaches the last node of the
\* chain through the chain.
CameFromOf(chain) ==
  [x \in { chain[i] : i \in 2..Len(chain) } |->
     chain[(CHOOSE i \in 2..Len(chain) : chain[i] = x) - 1]]

CallOfflineRoute ==
  \E start \in PathPlaces, end \in PathPlaces, options \in OptionSets :
    /\ pf.op = "none"
    /\ pf' = [op |-> "calculateOfflineRoute", start |-> start, end |-> end,
              options |-> options, chain |-> <<>>,
              out |-> OfflineSearch(start, end, options)]
    /\ UNCHANGED <<graph, online, call, ref, loopVars, visualHeadingRef>>

\* reconstructPath on the back-pointers of a node path from the start's
\* nearest node to the end's nearest node.
CallReconstructPath ==
  /\ pf.op = "none"
  /\ LET nearest == [p \in PathPlaces |-> findNearestNode(p)]
     IN \E k \in 2..MaxChain :
          \E chain \in Chains(k) :
            \E start \in PathPlaces, end \in PathPlaces :
              /\ chain[1] = nearest[start]
              /\ chain[k] = nearest[end]
              /\ pf' = [op |-> "reconstructPath", start |-> start,
                        end |-> end, options |-> NoOptions, chain |-> chain,
                        out |-> [route |-> reconstructPath(CameFromOf(chain),
                                                           chain[k], start, end),
                                 exit |-> "found",
                                 nodePath |-> NodePath(CameFromOf(chain),
                                                       chain[k]),
                                 popped |-> 0]]
  /\ UNCHANGED <<graph, online, call, ref, loopVars, visualHeadingRef>>

NextPath ==
  \/ CallOfflineRoute
  \/ CallReconstructPath

SpecPath == Init /\ [][NextPath]_vars

(***************************************************************************)
(* Properties of the pathfinder (SpecPath).                                *)
(***************************************************************************)
\* The nodes that edges of the graph lead to from the nodes of seen.
RECURSIVE ReachableFrom(_)
ReachableFrom(seen) ==
  LET more == seen \cup UNION { Neighbours(id) : id \in seen }
  IN IF more = seen THEN seen ELSE ReachableFrom(more)

Reachable(a, b) == b \in ReachableFrom({a})

NodeCoord(id) == Coord(GraphGet(graph, id).lat, GraphGet(graph, id).lng)

CoordsOf(ids) == [i \in 1..Len(ids) |-> NodeCoord(ids[i])]

AlongEdges(ids) ==
  \A i \in 1..(Len(ids) - 1) : ids[i + 1] \in Neighbours(ids[i])

PathCallOnDistinctNodes ==
  /\ pf.op = "calculateOfflineRoute"
  /\ findNearestNode(pf.start) # findNearestNode(pf.end)

\* C1: when the nearest nodes of start and end differ and the end node is
\* reachable from the start node, calculateOfflineRoute returns because the
\* end node was popped, with a route through graph nodes along graph edges;
\* it returns from open-set exhaustion only when the end node is unreachable.
C1_ReachableEndIsPopped ==
  PathCallOnDistinctNodes =>
    LET a == findNearestNode(pf.start)
        b == findNearestNode(pf.end)
    IN /\ Reachable(a, b) =>
            /\ pf.out.exit = "found"
            /\ pf.out.nodePath # <<>>
            /\ pf.out.nodePath[1] = a
            /\ pf.out.nodePath[Len(pf.out.nodePath)] = b
            /\ AlongEdges(pf.out.nodePath)
       /\ pf.out.exit = "exhausted" => ~Reachable(a, b)

\* C5: whichever return statement produced it, the route of the pathfinder
\* starts with the caller's start and ends with the caller's end.
C5_EndpointsAreCallers ==
  pf.op # "none" =>
    /\ Len(pf.out.route) >= 2
    /\ pf.out.route[1] = pf.start
    /\ pf.out.route[Len(pf.out.route)] = pf.end

\* A path was reconstructed for a start and an end that lie off their nodes.
C5_Witness ==
  /\ pf.op = "reconstructPath"
  /\ pf.start # NodeCoord(pf.chain[1])
  /\ pf.end # NodeCoord(pf.chain[Len(pf.chain)])

C7_SameNodeDirectSegment ==
  (/\ pf.op = "calculateOfflineRoute"
   /\ findNearestNode(pf.start) = findNearestNode(pf.end)) =>
    pf.out.route = <<pf.start, pf.end>>

\* Two different coordinates with the same nearest node, preferences set.
C7_Witness ==
  /\ pf.op = "calculateOfflineRoute"
  /\ pf.start # pf.end
  /\ findNearestNode(pf.start) = findNearestNode(pf.end)
  /\ pf.options = AllPreferences
  /\ pf.out.exit = "same"

(***************************************************************************)
(* Properties of getRoute (Spec).                                          *)
(***************************************************************************)
\* The body has no routes: the field is missing or the list is empty.
NoRoutes(data) == data.isObject /\ (~data.hasRoutes \/ data.routes = <<>>)

\* The body lacks the structure of a routing response.
Malformed(data) ==
  \/ ~data.isObject
  \/ /\ data.hasRoutes
     /\ data.routes # <<>>
     /\ (~data.routes[1].hasGeometry \/ ~data.routes[1].hasCoordinates)

\* The body has routes and the first one's coordinate list is empty.
EmptyGeometry(data) ==
  /\ data.isObject
  /\ data.hasRoutes
  /\ data.routes # <<>>
  /\ data.routes[1].hasGeometry
  /\ data.routes[1].hasCoordinates
  /\ data.routes[1].coordinates = <<>>

\* Timeout, transport error, status not ok, no routes, malformed body.
FailedOutcome(o) ==
  \/ o.kind \in {"timeout", "transport", "notOk", "bodySyntax", "bodyTimeout"}
  \/ o.kind = "body" /\ (NoRoutes(o.data) \/ Malformed(o.data))

OfflineChainOf(c) ==
  calculateOfflineRouteWithWaypoints(c.start, c.end, c.waypoints, c.options)

\* C2: whatever the connectivity and the outcome of the request, the route
\* getRoute returns has at least two coordinates.
C2_AtLeastDirectLine ==
  call.pc = "returned" => Len(call.result) >= 2

PairwiseDistinct(s) ==
  \A i \in 1..Len(s), j \in 1..Len(s) : i # j => s[i] # s[j]

Occurrences(route, c) == { i \in 1..Len(route) : route[i] = c }

\* C4: for pairwise distinct start, waypoints and end, the offline chain is
\* not empty, begins with start, ends with end, and holds every waypoint
\* exactly once, in the order given.
C4_ChainCoversWaypointsOnce ==
  (/\ call.pc = "returned"
   /\ (call.outcome.kind = "offline" \/ FailedOutcome(call.outcome))
   /\ PairwiseDistinct(<<call.start>> \o call.waypoints \o <<call.end>>)) =>
    LET route == call.result
        at(i) == CHOOSE k \in Occurrences(route, call.waypoints[i]) : TRUE
    IN /\ route # <<>>
       /\ route[1] = call.start
       /\ route[Len(route)] = call.end
       /\ \A i \in 1..Len(call.waypoints) :
            Cardinality(Occurrences(route, call.waypoints[i])) = 1
       /\ \A i \in 1..(Len(call.waypoints) - 1) : at(i) < at(i + 1)

\* The device was offline and the call had two waypoints, all coordinates
\* distinct.
C4_Witness ==
  /\ call.pc = "returned"
  /\ call.outcome.kind = "offline"
  /\ Len(call.waypoints) = 2
  /\ PairwiseDistinct(<<call.start>> \o call.waypoints \o <<call.end>>)

\* C8: a response whose first route has an empty coordinate list counts as
\* online routing unavailable, and getRoute returns the offline route.
C8_EmptyGeometryFallsBack ==
  (/\ call.pc = "returned"
   /\ call.outcome.kind = "body"
   /\ EmptyGeometry(call.outcome.data)) =>
    call.result = OfflineChainOf(call)

\* C9: a call issues no request when connectivity is reported unavailable
\* and exactly one otherwise, also after the request failed or timed out.
C9_OneRequestAtMost ==
  /\ call.requests <= 1
  /\ call.pc \in {"awaitFetch", "awaitJson"} =>
       call.sawOnline /\ call.requests = 1
  /\ call.pc = "returned" =>
       call.requests = (IF call.sawOnline THEN 1 ELSE 0)

\* The only request of a call timed out and the offline route was returned.
C9_Witness ==
  /\ call.pc = "returned"
  /\ call.outcome.kind = "timeout"
  /\ call.requests = 1
  /\ call.result = OfflineChainOf(call)

Max(a, b) == IF a > b THEN a ELSE b
Min(a, b) == IF a < b THEN a ELSE b
Sign(x) == IF x > 0 THEN 1 ELSE IF x < 0 THEN -1 ELSE 0

\* n / d rounded to the nearest integer, d positive.
RoundDiv(n, d) ==
  IF n >= 0 THEN (2 * n + d) \div (2 * d) ELSE -((2 * (-n) + d) \div (2 * d))

\* Math.sin for an angle of 0 to 180 degrees, by Bhaskara's rational
\* approximation (exact at 0, 30, 90, 150 and 180 degrees).
SinHalfTurn(a) ==
  LET p == (a * (1800 - a)) \div 100
  IN (40000 * p) \div (40500 - p)

\* Math.sin and Math.cos of an angle in tenths of a degree.
SinE4(a) ==
  LET r == a % 3600
  IN IF r <= 1800 THEN SinHalfTurn(r) ELSE -SinHalfTurn(r - 1800)

CosE4(a) == SinE4(a + 900)

\* Math.atan of small / big for 0 <= small <= big, big positive, in tenths
\* of a degree (0 to 450), by the quadratic approximation
\* 45 z + 15.6 z (1 - z) degrees, exact at 0 and at 45 degrees.
AtanFrac(small, big) ==
  LET z == IF big >= 1000000 THEN small \div (big \div 1000)
           ELSE (small * 1000) \div big
  IN (450 * z + (156 * z * (1000 - z)) \div 1000) \div 1000

\* (toDeg(Math.atan2(y, x)) + 360) % 360 for an east component y and a north
\* component x; atan2(0, 0) is 0.
Atan2Bearing(y, x) ==
  LET ay == Abs(y)
      ax == Abs(x)
      fromAxis == IF ay = 0 /\ ax = 0 THEN 0
                  ELSE IF ay <= ax THEN AtanFrac(ay, ax)
                  ELSE 900 - AtanFrac(ax, ay)
  IN IF x >= 0 /\ y >= 0 THEN fromAxis
     ELSE IF x < 0 /\ y >= 0 THEN 1800 - fromAxis
     ELSE IF x < 0 THEN 1800 + fromAxis
     ELSE (3600 - fromAxis) % 3600

\* calculateBearing: the initial bearing from start to end, 0 = north,
\* 900 = east.
calculateBearing(start, end) ==
  Atan2Bearing((end.lng - start.lng) * LngDm, (end.lat - start.lat) * LatDm)

\* calculateNewPosition: the point distance mm from start along the bearing.
\* 1e-7 degree is LatDm / 10 mm of latitude and LngDm / 10 mm of longitude.
calculateNewPosition(start, distance, bearing) ==
  Coord(start.lat + RoundDiv(distance * CosE4(bearing), 1000 * LatDm),
        start.lng + RoundDiv(distance * SinE4(bearing), 1000 * LngDm))

(***************************************************************************)
(* The animation frame callback, animate (part_004 lines 142-338).         *)
(***************************************************************************)
\* routeCoordinates[i], i counting from 0 as in the source.
At(route, i) == route[i + 1]

\* A reading the device does not supply (null in the event).
Absent == -100000

\* reading || 0.
OrZero(reading) == IF reading = Absent THEN 0 ELSE reading

\* The calibrated compass heading of lines 159-160.
SensorHeading(a) ==
  ((OrZero(a.sensors.alpha) + a.calibration.alphaOffset) + 3600) % 3600

\* Lines 251-253.
BaseMaxSpeed(mode) ==
  IF mode = "CAR" THEN CAR_SPEED_MPS
  ELSE IF mode = "BIKE" THEN BIKE_SPEED_MPS
  ELSE WALKING_SPEED_MPS

\* The point at ratio remaining / segLen between p1 and p2.
Interpolate(p1, p2, remaining, segLen) ==
  Coord(p1.lat + RoundDiv((p2.lat - p1.lat) * remaining, segLen),
        p1.lng + RoundDiv((p2.lng - p1.lng) * remaining, segLen))

\* The while loop of getPointAtDist from route index i on.
RECURSIVE WalkSegments(_, _, _)
WalkSegments(route, i, remaining) ==
  IF i < Len(route) - 1
  THEN LET p1 == At(route, i)
           p2 == At(route, i + 1)
           segLen == calculateDistance(p1, p2)
       IN IF remaining <= segLen THEN Interpolate(p1, p2, remaining, segLen)
          ELSE WalkSegments(route, i + 1, remaining - segLen)
  ELSE At(route, Len(route) - 1)

\* getPointAtDist: the point dist dm ahead on the path from the current
\* position through the route points from nextIdx on.
getPointAtDist(currentLocation, route, nextIdx, dist) ==
  LET p2 == At(route, nextIdx)
      segLen == calculateDistance(currentLocation, p2)
  IN IF dist <= segLen THEN Interpolate(currentLocation, p2, dist, segLen)
     ELSE WalkSegments(route, nextIdx, dist - segLen)

\* An angle difference brought into -180..180 degrees (the two while loops).
NormalizeAngle(d) ==
  IF d < -1800 THEN d + 3600 ELSE IF d > 1800 THEN d - 3600 ELSE d

AdvanceIndexByTwo(index, distToNext, currentSpeed, length) ==
  IF distToNext < Max(50, currentSpeed \div 100) THEN index + 2 ELSE index

\* Lines 219-225: the index moves on by one when the targeted point is
\* nearer than max(5 m, one second of travel), but not past the last index.
AdvanceIndex(index, distToNext, currentSpeed, length) ==
  IF distToNext < Max(50, currentSpeed \div 100) /\ index < length - 1
  THEN index + 1
  ELSE index

\* Line 323: the speed state takes the computed speed only when the two
\* differ by more than 0.1 m/s.
ThrottledSpeed(prev, calculatedSpeed) ==
  IF Abs(prev - calculatedSpeed) > 100 THEN calculatedSpeed ELSE prev

\* Lines 167-168: the ref's value, or the last index when it is beyond.
TargetIdx(index, length) == IF index >= length THEN length - 1 ELSE index

\* Lines 166-168 and 219-232: the distance to the targeted route point and
\* the bearings to the steering and braking lookahead points, each lookahead
\* point computed once like the consts steerTarget and brakeTarget.
Lookahead(a, index) ==
  LET route == a.routeCoordinates
      targetIdx == TargetIdx(index, Len(route))
  IN [distToNext |-> calculateDistance(a.currentLocation,
                                       At(route, targetIdx)),
      bearingToSteer |->
        CHOOSE bearing \in
          { calculateBearing(a.currentLocation, steerTarget) :
              steerTarget \in
                {getPointAtDist(a.currentLocation, route, targetIdx,
                                Max(100, (a.currentSpeed * 3) \div 200))} } :
          TRUE,
      bearingToBrake |->
        CHOOSE bearing \in
          { calculateBearing(a.currentLocation, brakeTarget) :
              brakeTarget \in
                {getPointAtDist(a.currentLocation, route, targetIdx,
                                Max(400, a.currentSpeed \div 25))} } :
          TRUE]

\* Lines 243-244: the angle between the steering and the braking vector.
CurveAngle(bearingToSteer, bearingToBrake) ==
  LET spread == Abs(bearingToSteer - bearingToBrake)
  IN IF spread > 1800 THEN 3600 - spread ELSE spread

\* Lines 255-262: the speed the curvature ahead and the misalignment allow.
TargetSpeed(baseMaxSpeed, curveAngle, headingError) ==
  LET curvatureSeverity == (curveAngle * 18) \div 10 + Abs(headingError) \div 2
      speedFactor == Max(300, 1000 - (curvatureSeverity * 1000) \div 700)
  IN (baseMaxSpeed * speedFactor) \div 1000

CalculatedSpeedUnclamped(currentSpeed, targetSpeed, baseMaxSpeed, dt) ==
  IF currentSpeed < targetSpeed
  THEN currentSpeed + (5 * dt) \div 2
  ELSE currentSpeed - 5 * dt

\* Lines 267-274: 2.5 m/s^2 up, 5 m/s^2 down, kept within 0.5 m/s and the
\* mode's speed.
CalculatedSpeed(currentSpeed, targetSpeed, baseMaxSpeed, dt) ==
  Max(500, Min(IF currentSpeed < targetSpeed
               THEN currentSpeed + (5 * dt) \div 2
               ELSE currentSpeed - 5 * dt,
               baseMaxSpeed))

\* Lines 278-286: the sensor heading turned towards the steering bearing by
\* at most the turn rate times the frame time.
CalculatedHeading(heading, bearingToSteer, headingError, currentSpeed, dt) ==
  LET maxTurnRate == Max(350, 1200 - currentSpeed \div 40)
      turnStep == (maxTurnRate * dt) \div 1000
  IN IF Abs(headingError) <= turnStep THEN bearingToSteer
     ELSE (heading + Sign(headingError) * turnStep + 3600) % 3600

\* Lines 234-291 for the lookahead values look.
Steer(a, index, dt, look) ==
  LET headingError ==
        NormalizeAngle(look.bearingToSteer - SensorHeading(a))
      curveAngle == CurveAngle(look.bearingToSteer, look.bearingToBrake)
      targetSpeed == TargetSpeed(BaseMaxSpeed(a.mode), curveAngle,
                                 headingError)
      calculatedSpeed == CalculatedSpeed(a.currentSpeed, targetSpeed,
                                         BaseMaxSpeed(a.mode), dt)
      calculatedHeading == CalculatedHeading(SensorHeading(a),
                                             look.bearingToSteer, headingError,
                                             a.currentSpeed, dt)
  IN [speed |-> calculatedSpeed, heading |-> calculatedHeading,
      targetSpeed |-> targetSpeed, headingError |-> headingError,
      curveAngle |-> curveAngle,
      location |-> calculateNewPosition(a.currentLocation,
                                        (calculatedSpeed * dt) \div 1000,
                                        calculatedHeading),
      index |-> AdvanceIndex(index, look.distToNext, a.currentSpeed,
                             Len(a.routeCoordinates))]

\* The route-following branch, lines 165-291, for the render's state a, the
\* ref's value index and a frame of dt ms: the computed speed and heading,
\* the new position and the new value of the ref.
FollowRoad(a, index, dt) ==
  CHOOSE out \in { Steer(a, index, dt, look) : look \in {Lookahead(a, index)} } :
    TRUE

FreeMoveAnyMotion(a, index, dt) ==
  LET accX == OrZero(a.sensors.accX) - a.calibration.accXOffset
      accY == OrZero(a.sensors.accY) - a.calibration.accYOffset
      accMagnitude == ISqrtFrom(accX * accX + accY * accY,
                                Abs(accX) + Abs(accY))
      calculatedSpeed ==
        IF a.isSimulatingMove THEN BaseMaxSpeed(a.mode)
        ELSE IF ~a.gpsActive
        THEN Min((WALKING_SPEED_MPS * 3) \div 2, accMagnitude \div 2)
        ELSE 0
  IN [speed |-> calculatedSpeed, heading |-> SensorHeading(a),
      targetSpeed |-> calculatedSpeed, headingError |-> 0, curveAngle |-> 0,
      location |-> IF calculatedSpeed > 0
                   THEN calculateNewPosition(a.currentLocation,
                                             (calculatedSpeed * dt) \div 1000,
                                             SensorHeading(a))
                   ELSE a.currentLocation,
      index |-> index]

\* The free-movement and dead-reckoning branch, lines 294-320.
FreeMove(a, index, dt) ==
  LET accX == OrZero(a.sensors.accX) - a.calibration.accXOffset
      accY == OrZero(a.sensors.accY) - a.calibration.accYOffset
      accMagnitude == ISqrtFrom(accX * accX + accY * accY,
                                Abs(accX) + Abs(accY))
      calculatedSpeed ==
        IF a.isSimulatingMove THEN BaseMaxSpeed(a.mode)
        ELSE IF ~a.gpsActive /\ accMagnitude > 1200
        THEN Min((WALKING_SPEED_MPS * 3) \div 2, accMagnitude \div 2)
        ELSE 0
  IN [speed |-> calculatedSpeed, heading |-> SensorHeading(a),
      targetSpeed |-> calculatedSpeed, headingError |-> 0, curveAngle |-> 0,
      location |-> IF calculatedSpeed > 0
                   THEN calculateNewPosition(a.currentLocation,
                                             (calculatedSpeed * dt) \div 1000,
                                             SensorHeading(a))
                   ELSE a.currentLocation,
      index |-> index]

\* Whether a frame takes the route-following branch (line 165).
FollowsRoute(a) ==
  /\ a.isSimulatingMove
  /\ a.navState = "NAVIGATING"
  /\ Len(a.routeCoordinates) > 1

\* The branch of animate a frame takes (lines 165 and 294).
FrameKind(a) ==
  IF FollowsRoute(a) THEN "follow"
  ELSE IF ~a.gpsActive \/ (a.gpsActive /\ a.isSimulatingMove) THEN "free"
  ELSE "idle"

\* One frame after the first: what animate computes.
animate(a, index, dt) ==
  IF FollowsRoute(a) THEN FollowRoad(a, index, dt)
  ELSE IF ~a.gpsActive \/ (a.gpsActive /\ a.isSimulatingMove)
  THEN FreeMove(a, index, dt)
  ELSE [speed |-> 0, heading |-> SensorHeading(a), targetSpeed |-> 0,
        headingError |-> 0, curveAngle |-> 0, location |-> a.currentLocation,
        index |-> index]

(***************************************************************************)
(* Maneuver detection, the effect of lines 350-419.                        *)
(***************************************************************************)
\* Line 359.
DistToEnd(a) ==
  IF a.targetLocation # <<>>
  THEN calculateDistance(a.currentLocation, a.targetLocation[1])
  ELSE 0

ArrivedByDistanceOnly(idx, length, distToEnd) == distToEnd < 200

ArrivedWhenLastIndexOnly(idx, length, distToEnd) == idx >= length - 1

\* Line 360: the arrival test.
Arrived(idx, length, distToEnd) == idx >= length - 1 \/ distToEnd < 200

TurnTypeMirrored(diff) ==
  IF Abs(diff) > 1000 THEN (IF diff > 0 THEN "sharp-left" ELSE "sharp-right")
  ELSE IF Abs(diff) > 450 THEN (IF diff > 0 THEN "left" ELSE "right")
  ELSE (IF diff > 0 THEN "slight-left" ELSE "slight-right")

\* Lines 389-402: the kind of a turn of diff tenths of a degree.
TurnType(diff) ==
  IF Abs(diff) > 1000 THEN (IF diff < 0 THEN "sharp-left" ELSE "sharp-right")
  ELSE IF Abs(diff) > 450 THEN (IF diff < 0 THEN "left" ELSE "right")
  ELSE (IF diff < 0 THEN "slight-left" ELSE "slight-right")

\* The for loop of lines 375-406 from index i on, up to the index limit.
RECURSIVE ScanTurns(_, _, _, _)
ScanTurns(route, i, limit, lookAheadDist) ==
  IF i >= limit \/ lookAheadDist > 15000
  THEN [found |-> FALSE, type |-> "straight", lookAheadDist |-> lookAheadDist]
  ELSE LET pCurrent == At(route, i)
           pNext == At(route, i + 1)
           pAfter == At(route, i + 2)
           segDist == calculateDistance(pCurrent, pNext)
           b1 == calculateBearing(pCurrent, pNext)
           b2 == calculateBearing(pNext, pAfter)
           diff == NormalizeAngle(b2 - b1)
       IN IF Abs(diff) > 300
          THEN [found |-> TRUE, type |-> TurnType(diff),
                lookAheadDist |-> lookAheadDist]
          ELSE ScanTurns(route, i + 1, limit, lookAheadDist + segDist)

\* The maneuver the effect sets for the render's state a, or current when it
\* returns without setting one.
ManeuverEffect(a, current) ==
  LET route == a.routeCoordinates
      idx == a.nextRoutePointIndex
      distToEnd == DistToEnd(a)
  IN IF a.navState # "NAVIGATING" THEN NoManeuver
     ELSE IF Len(route) <= 1 THEN current
     ELSE IF Arrived(idx, Len(route), distToEnd)
     THEN [type |-> "arrive", distance |-> distToEnd]
     ELSE LET scan == ScanTurns(route, idx, Min(Len(route) - 2, idx + 30), 0)
              distToNext == calculateDistance(a.currentLocation, At(route, idx))
          IN IF scan.found
             THEN [type |-> scan.type,
                   distance |-> distToNext + scan.lookAheadDist]
             ELSE [type |-> "straight",
                   distance |-> IF scan.lookAheadDist > 0
                                THEN scan.lookAheadDist ELSE distToEnd]

\* Whether the effect gets as far as reading the index (line 356).
ReadsIndex(a) == a.navState = "NAVIGATING" /\ Len(a.routeCoordinates) > 1

\* The indices of routeCoordinates the effect reads for the render's state a:
\* none when it returns early or reports the arrival (lines 351-363), else
\* idx (line 366) and i, i + 1 and i + 2 for every i the for loop of line 375
\* may take.
DetectionReads(a) ==
  LET idx == a.nextRoutePointIndex
      length == Len(a.routeCoordinates)
  IN IF ~ReadsIndex(a) \/ Arrived(idx, length, DistToEnd(a)) THEN {}
     ELSE {idx} \cup
          UNION { {i, i + 1, i + 2} :
                  i \in idx..(Min(length - 2, idx + 30) - 1) }

\* The indices of routeCoordinates a frame may read for the render's state a
\* and the ref's value index: none outside the route-following branch (line
\* 166), else targetIdx (lines 183 and 219), i and i + 1 for every i the
\* while loop of line 199 may take, and the last index (line 215).
TickReads(a, index) ==
  LET length == Len(a.routeCoordinates)
      targetIdx == TargetIdx(index, length)
  IN IF ~FollowsRoute(a) THEN {}
     ELSE {targetIdx, length - 1} \cup
          UNION { {i, i + 1} : i \in targetIdx..(length - 2) }

(***************************************************************************)
(* ETA, lines 548-578.                                                     *)
(***************************************************************************)
EffectiveSpeedNoFallback(currentSpeed, mode) == currentSpeed

\* Lines 551-561: the mode's speed stands in for a speed below 0.5 m/s.
EffectiveSpeed(currentSpeed, mode) ==
  IF currentSpeed < 500 THEN BaseMaxSpeed(mode) ELSE currentSpeed

\* etaDetails: the duration in seconds and as hours and minutes.  Division
\* by zero gives JavaScript's Infinity.
etaDetails(a) ==
  LET effectiveSpeed == EffectiveSpeed(a.currentSpeed, a.mode)
      seconds == IF effectiveSpeed = 0 THEN Infinity
                 ELSE (DistToEnd(a) * 100) \div effectiveSpeed
      minutes == IF seconds = Infinity THEN Infinity ELSE (seconds + 59) \div 60
  IN [effectiveSpeed |-> effectiveSpeed, seconds |-> seconds,
      hours |-> IF minutes = Infinity THEN Infinity ELSE minutes \div 60,
      remainingMins |-> IF minutes = Infinity THEN 0 ELSE minutes % 60]

(***************************************************************************)
(* The navigation loop as a state machine.                                 *)
(***************************************************************************)
MaxRequests == 2
MaxTicks == 2
MaxRange == 250
MaxWinding == 7200

\* Places on the map, by their offset from the default start in metres
\* north and east.
StepNorth == Coord(DEFAULT_START_LOCATION.lat + 270,
                   DEFAULT_START_LOCATION.lng)
NearAhead == Coord(DEFAULT_START_LOCATION.lat + 1351,
                   DEFAULT_START_LOCATION.lng + 303)
FarAhead == Coord(DEFAULT_START_LOCATION.lat + 5405,
                  DEFAULT_START_LOCATION.lng + 303)
StraightAhead == Coord(DEFAULT_START_LOCATION.lat + 1982,
                       DEFAULT_START_LOCATION.lng)

\* A geometry the routing server may answer with: between two consecutive
\* points of the request it runs along the parallel of the first and then
\* along the meridian of the second.
RoadGeometry(start, waypoints, end) ==
  LET points == <<start>> \o waypoints \o <<end>>
  IN [i \in 1..(2 * Len(points) - 1) |->
        IF i % 2 = 1 THEN points[(i + 1) \div 2]
        ELSE Coord(points[i \div 2].lat, points[i \div 2 + 1].lng)]

\* The route getRoute resolves with for the request r: the server's
\* geometry, or the local engine's chain when the network is skipped or
\* fails.
GetRouteResult(r, kind) ==
  IF kind = "network" THEN RoadGeometry(r.start, r.waypoints, r.end)
  ELSE Fallback(r.start, r.end, r.waypoints, r.options)

\* navigator.onLine is read before the first await of getRoute: a call made
\* offline resolves before any other event is handled.
ImmediatePending == \E i \in 1..Len(requests) : requests[i].immediate

\* No event is handled while an update of an effect awaits its render or an
\* immediate resolution awaits its microtask.
Settled == ~app.renderPending /\ ~ImmediatePending

InstalledRouteLosesEnd(route) ==
  IF route = <<>> THEN route ELSE SubSeq(route, 1, Len(route) - 1)

\* Line 440: setRouteCoordinates(route).
InstalledRoute(route) == route

\* handleSetDestination up to its await, lines 423-439, called from the
\* render of state a, and the render that follows: the reset effect (lines
\* 135-139) runs, maneuver detection returns at once on the empty route.
HandleSetDestination(a, target) ==
  LET request == [seq |-> hist.issued + 1, start |-> a.currentLocation,
                  end |-> target, mode |-> a.mode,
                  options |-> a.routingOptions, waypoints |-> a.waypoints,
                  immediate |-> SkipNetwork(online)]
  IN /\ hist.issued < MaxRequests
     /\ app' = [a EXCEPT !.targetLocation = <<target>>,
                         !.navState = "NAVIGATING",
                         !.routeCoordinates = <<>>,
                         !.nextRoutePointIndex = 1,
                         !.nextManeuver = NoManeuver]
     /\ nextRoutePointIndexRef' = 1
     /\ requests' = Append(requests, request)
     /\ hist' = [hist EXCEPT !.issued = @ + 1, !.installed = 0,
                             !.latest = <<request>>,
                             !.cleared = (app.routeCoordinates # <<>>),
                             !.unticked = FALSE]
     /\ UNCHANGED <<visualHeadingRef, graph, online, call, ref, pf>>

\* a % n of JavaScript: the remainder has the sign of a.
JsMod(a, n) == IF a >= 0 THEN a % n ELSE -((-a) % n)

\* MapView.tsx lines 193-197: the accumulated rotation of the marker once
\* the heading prop has been taken in, in tenths of a degree.
SmartRotation(heading, visualHeading) ==
  LET diff == heading - JsMod(visualHeading, 3600)
      lowered == IF diff > 1800 THEN diff - 3600 ELSE diff
      raised == IF lowered < -1800 THEN lowered + 3600 ELSE lowered
  IN visualHeading + raised

\* WelcomeScreen's onStart (line 595): the first animation frame is
\* requested; the display's frame interval is one of dts.  MapView mounts
\* and its ref starts from the heading prop (MapView.tsx line 105).
StartLoopWith(dts) ==
  \E dt \in dts :
    /\ ~app.hasStarted
    /\ app' = [app EXCEPT !.hasStarted = TRUE, !.frame = dt]
    /\ visualHeadingRef' = SensorHeading(app)
    /\ UNCHANGED <<graph, online, call, ref, pf, nextRoutePointIndexRef,
                   requests, hist>>

\* A tap on the map (line 652) at one of dests.
MapClickAt(dests) ==
  \E dest \in dests :
    /\ app.hasStarted
    /\ Settled
    /\ HandleSetDestination(app, dest)

\* A long press on the map (lines 447-449 and 653); the effect of lines
\* 470-477 then asks for a new route when a destination is set.
AddWaypointAt(places) ==
  \E coords \in places :
    /\ app.hasStarted
    /\ Settled
    /\ Len(app.waypoints) < MaxWaypoints
    /\ LET rendered == [app EXCEPT !.waypoints = Append(@, coords)]
       IN IF rendered.navState = "NAVIGATING" /\ rendered.targetLocation # <<>>
          THEN HandleSetDestination(rendered, rendered.targetLocation[1])
          ELSE /\ app' = rendered
               /\ UNCHANGED <<visualHeadingRef, graph, online, call, ref, pf,
                              nextRoutePointIndexRef, requests, hist>>

\* The simulate button is pressed (line 1043) once a route is shown.
PressMove ==
  /\ app.hasStarted
  /\ Settled
  /\ ~app.isSimulatingMove
  /\ Len(app.routeCoordinates) > 1
  /\ app' = [app EXCEPT !.isSimulatingMove = TRUE]
  /\ UNCHANGED <<visualHeadingRef, graph, online, call, ref, pf,
                 nextRoutePointIndexRef, requests, hist>>

\* A mode button (lines 1067-1079), before navigation starts.
SetMode ==
  \E mode \in TransportModes :
    /\ app.hasStarted
    /\ app.navState = "IDLE"
    /\ app.mode = "WALK"
    /\ mode # "WALK"
    /\ app' = [app EXCEPT !.mode = mode]
    /\ UNCHANGED <<visualHeadingRef, graph, online, call, ref, pf,
                   nextRoutePointIndexRef, requests, hist>>

\* A deviceorientation event (lines 116-121) with a compass heading of
\* headings, before navigation starts, and MapView's effect of the render
\* that follows; the marker has MaxWinding of rotation at most.
DeviceOrientationOf(headings) ==
  \E alpha \in headings :
    /\ app.hasStarted
    /\ app.navState = "IDLE"
    /\ app.sensors.alpha # alpha
    /\ app' = [app EXCEPT !.sensors.alpha = alpha]
    /\ visualHeadingRef' = SmartRotation(SensorHeading(app'), visualHeadingRef)
    /\ Abs(visualHeadingRef') <= MaxWinding
    /\ UNCHANGED <<graph, online, call, ref, pf, nextRoutePointIndexRef,
                   requests, hist>>

\* The await of line 439 resumes for one of the outstanding calls, in any
\* order: the route is installed (line 440) and the render's effects run in
\* the order of their declaration.  The reset effect (lines 135-139) sets
\* the ref and asks for the index state 1, which the next render has;
\* maneuver detection (lines 350-419) runs with the index state of this
\* render.
InstallRoute(i, result) ==
  /\ \E route \in {InstalledRoute(result)} :
       \E committed \in {[app EXCEPT !.routeCoordinates = route]} :
         /\ app' = [committed EXCEPT
                      !.nextManeuver = ManeuverEffect(committed, NoManeuver),
                      !.renderPending = (app.nextRoutePointIndex # 1)]
         /\ hist' = [hist EXCEPT
                       !.installed = requests[i].seq,
                       !.cleared = FALSE,
                       !.unticked = TRUE,
                       !.detection =
                          IF ReadsIndex(committed)
                          THEN [ran |-> TRUE, first |-> TRUE,
                                idx |-> committed.nextRoutePointIndex]
                          ELSE @]
  /\ nextRoutePointIndexRef' = 1
  /\ requests' = [j \in 1..(Len(requests) - 1) |->
                    IF j < i THEN requests[j] ELSE requests[j + 1]]
  /\ UNCHANGED <<visualHeadingRef, graph, online, call, ref, pf>>

\* The call resolves with the server's route or with the local engine's.
RouteResolvesWith(kinds) ==
  \E i \in 1..Len(requests), kind \in kinds :
    /\ ~app.renderPending
    /\ requests[i].immediate => kind = "offline"
    /\ ImmediatePending => requests[i].immediate
    /\ \E result \in {GetRouteResult(requests[i], kind)} :
         InstallRoute(i, result)

RouteResolves == RouteResolvesWith({"network", "offline"})

\* The server is out of reach: every call ends in the local engine.
RouteResolvesOffline == RouteResolvesWith({"offline"})

\* The render that the reset effect's setNextRoutePointIndex(1) asked for;
\* maneuver detection runs again because the index changed.
Rerender ==
  /\ app.renderPending
  /\ LET rendered == [app EXCEPT !.nextRoutePointIndex = 1,
                                 !.renderPending = FALSE]
     IN /\ app' = [rendered EXCEPT
                     !.nextManeuver = ManeuverEffect(rendered,
                                                     app.nextManeuver)]
        /\ hist' = [hist EXCEPT
                      !.detection = IF ReadsIndex(rendered)
                                    THEN [ran |-> TRUE, first |-> FALSE,
                                          idx |-> 1]
                                    ELSE @]
  /\ UNCHANGED <<visualHeadingRef, graph, online, call, ref, pf,
                 nextRoutePointIndexRef, requests>>

\* One animation frame and the render it causes: animate with the render's
\* state and the ref, then maneuver detection when its inputs changed.
Frame(counted) ==
  /\ app.hasStarted
  /\ Settled
  /\ \E out \in {animate(app, nextRoutePointIndexRef, app.frame)} :
       \E rendered \in
           {[app EXCEPT
               !.currentLocation = out.location,
               !.currentSpeed = ThrottledSpeed(@, out.speed),
               !.nextRoutePointIndex =
                  IF out.index # nextRoutePointIndexRef THEN out.index
                  ELSE @]} :
         /\ app' = [rendered EXCEPT
                      !.nextManeuver = ManeuverEffect(rendered,
                                                      app.nextManeuver)]
         /\ nextRoutePointIndexRef' = out.index
         /\ hist' = [hist EXCEPT
                       !.ticks = IF counted THEN @ + 1 ELSE @,
                       !.unticked = IF FollowsRoute(app) THEN FALSE ELSE @,
                       !.computed =
                          [kind |-> FrameKind(app), speed |-> out.speed,
                           heading |-> out.heading,
                           targetSpeed |-> out.targetSpeed,
                           speedBefore |-> app.currentSpeed,
                           from |-> app.currentLocation,
                           to |-> out.location,
                           sensors |-> app.sensors,
                           calibration |-> app.calibration,
                           reckoned |-> ~app.gpsActive
                                          /\ ~app.isSimulatingMove,
                           prev |-> IF @.kind = "follow" /\ FollowsRoute(app)
                                    THEN <<@.heading>> ELSE <<>>],
                       !.tickRead =
                          IF FollowsRoute(app)
                          THEN [ran |-> TRUE, first |-> hist.unticked,
                                idx |-> nextRoutePointIndexRef]
                          ELSE @,
                       !.detection =
                          IF /\ ReadsIndex(rendered)
                             /\ \/ rendered.currentLocation
                                      # app.currentLocation
                                \/ rendered.nextRoutePointIndex
                                      # app.nextRoutePointIndex
                          THEN [ran |-> TRUE, first |-> FALSE,
                                idx |-> rendered.nextRoutePointIndex]
                          ELSE @]
  /\ UNCHANGED <<visualHeadingRef, graph, online, call, ref, pf, requests>>

(***************************************************************************)
(* Route installation with calls in flight: a few frames of one second.    *)
(***************************************************************************)
NavDeltaTimes == {1000}
NavDestinations == {NearAhead, FarAhead}
NavWaypoints == {StepNorth}

StartLoop == StartLoopWith(NavDeltaTimes)
MapClick == MapClickAt(NavDestinations)
AddWaypoint == AddWaypointAt(NavWaypoints)

\* A frame while the simulate button is held, MaxTicks at most.
Tick ==
  /\ app.isSimulatingMove
  /\ hist.ticks < MaxTicks
  /\ Frame(TRUE)

NextNav ==
  \/ StartLoop
  \/ MapClick
  \/ AddWaypoint
  \/ PressMove
  \/ RouteResolves
  \/ Rerender
  \/ Tick

SpecNav == Init /\ [][NextNav]_vars

(***************************************************************************)
(* Driving along one straight route, frame after frame, until the position *)
(* is within the arrival threshold or more than MaxRange dm away from the  *)
(* destination.                                                            *)
(***************************************************************************)
DriveDeltaTimes == {17, 1000}
DriveHeadings == {1800}

StartDrive == StartLoopWith(DriveDeltaTimes)
DeviceOrientation == DeviceOrientationOf(DriveHeadings)

\* The first destination, straight ahead to the north.
MapClickAhead ==
  /\ app.navState = "IDLE"
  /\ MapClickAt({StraightAhead})

InRange(a) == DistToEnd(a) >= 200 /\ DistToEnd(a) <= MaxRange

DriveFrame ==
  /\ InRange(app)
  /\ Frame(FALSE)

NextDrive ==
  \/ StartDrive
  \/ SetMode
  \/ DeviceOrientation
  \/ MapClickAhead
  \/ RouteResolvesOffline
  \/ PressMove
  \/ DriveFrame

\* requestAnimationFrame calls animate again for every frame of the display.
SpecDrive == Init /\ [][NextDrive]_vars /\ WF_vars(DriveFrame)

(***************************************************************************)
(* Maneuver detection on roads of many shapes: the routing server answers  *)
(* with the road that leads from the default start to the destination.     *)
(***************************************************************************)
\* The point north metres north and east metres east of p.
Offset(p, north, east) == Coord(p.lat + 90 * north, p.lng + 101 * east)

\* The points reached from start by the steps, each a pair of metres north
\* and metres east, start included.
RECURSIVE Polyline(_, _)
Polyline(start, steps) ==
  IF steps = <<>> THEN <<start>>
  ELSE <<start>> \o Polyline(Offset(start, steps[1][1], steps[1][2]),
                             Tail(steps))

\* n steps of five metres north.
Northward(n) == [i \in 1..n |-> <<5, 0>>]

\* The roads that leave the default start: bends of about 20, 37, 60 and 120
\* degrees to either side behind a straight stretch, a bend at the first
\* point, a gentle bend followed by a turn, 800 m blocks with a turn 800 m,
\* 1600 m and 2400 m behind the first point, and rows of five-metre segments
\* with a turn at the 30th and at the 31st point behind the first.
ProbeRoads ==
  { <<<<20, 0>>, <<50, 0>>, <<40, 30>>>>,
    <<<<20, 0>>, <<50, 0>>, <<40, -30>>>>,
    <<<<20, 0>>, <<50, 0>>, <<25, 43>>>>,
    <<<<20, 0>>, <<50, 0>>, <<25, -43>>>>,
    <<<<20, 0>>, <<50, 0>>, <<-25, 43>>>>,
    <<<<20, 0>>, <<50, 0>>, <<-25, -43>>>>,
    <<<<20, 0>>, <<50, 0>>, <<47, 17>>>>,
    <<<<50, 0>>, <<0, 50>>>>,
    <<<<20, 0>>, <<50, 0>>, <<47, 17>>, <<17, 47>>>>,
    <<<<800, 0>>, <<800, 0>>, <<0, 800>>>>,
    <<<<800, 0>>, <<800, 0>>, <<800, 0>>, <<0, 800>>>>,
    <<<<800, 0>>, <<800, 0>>, <<800, 0>>, <<800, 0>>, <<0, 800>>>>,
    Northward(31) \o <<<<0, 5>>>>,
    Northward(32) \o <<<<0, 5>>>> }

ProbeGeometry(steps) == Polyline(DEFAULT_START_LOCATION, steps)

\* Where the roads end.
ProbeDestinations ==
  { ProbeGeometry(steps)[Len(steps) + 1] : steps \in ProbeRoads }

ScanDeltaTimes == {1000}

StartScan == StartLoopWith(ScanDeltaTimes)
MapClickRoad == MapClickAt(ProbeDestinations)

\* The server answers a call with the road that ends at its destination.
RoadResolves ==
  \E i \in 1..Len(requests), steps \in ProbeRoads :
    /\ ~app.renderPending
    /\ ~requests[i].immediate
    /\ \E result \in {ProbeGeometry(steps)} :
         /\ result[Len(result)] = requests[i].end
         /\ InstallRoute(i, result)

NextScan ==
  \/ StartScan
  \/ MapClickRoad
  \/ RoadResolves
  \/ PressMove
  \/ Rerender
  \/ Tick

SpecScan == Init /\ [][NextScan]_vars

(***************************************************************************)
(* Dead reckoning: the sensors are read and calibrated, the GPS is lost    *)
(* and the position follows the sensors for a few frames.                  *)
(***************************************************************************)
ReckonDeltaTimes == {1000}

\* Accelerations along x and y in mm/s^2: none, below and above the
\* threshold of 1.2 m/s^2, and large.
ReckonAccelerationsX == {Absent, 1000, 1300, 4000}
ReckonAccelerationsY == {Absent, -3000}

\* Compass headings in tenths of a degree.
ReckonHeadings == {Absent, 900}

StartReckon == StartLoopWith(ReckonDeltaTimes)
CompassTurns == DeviceOrientationOf(ReckonHeadings)

\* The GPS button (line 1037) switches the GPS off.
ToggleGps ==
  /\ app.hasStarted
  /\ app.gpsActive
  /\ app' = [app EXCEPT !.gpsActive = ~@]
  /\ UNCHANGED <<visualHeadingRef, graph, online, call, ref, pf,
                 nextRoutePointIndexRef, requests, hist>>

\* A devicemotion event (lines 124-130) before the GPS is lost: an
\* acceleration the event lacks is stored as 0.
DeviceMotion ==
  \E x \in ReckonAccelerationsX, y \in ReckonAccelerationsY :
    /\ app.hasStarted
    /\ app.gpsActive
    /\ <<app.sensors.accX, app.sensors.accY>> # <<OrZero(x), OrZero(y)>>
    /\ app' = [app EXCEPT !.sensors.accX = OrZero(x),
                          !.sensors.accY = OrZero(y)]
    /\ UNCHANGED <<visualHeadingRef, graph, online, call, ref, pf,
                   nextRoutePointIndexRef, requests, hist>>

\* The calibration dialog is saved (lines 740-745) after "Set North"
\* (part_002 line 34) and "Zero accelerometer" (part_002 lines 37-49): the
\* offsets are the readings of the moment.
SaveCalibration ==
  /\ app.hasStarted
  /\ app.gpsActive
  /\ \E newCal \in {[alphaOffset |-> -OrZero(app.sensors.alpha),
                     accXOffset |-> OrZero(app.sensors.accX),
                     accYOffset |-> OrZero(app.sensors.accY)]} :
       /\ app.calibration # newCal
       /\ app' = [app EXCEPT !.calibration = newCal]
  /\ visualHeadingRef' = SmartRotation(SensorHeading(app'), visualHeadingRef)
  /\ Abs(visualHeadingRef') <= MaxWinding
  /\ UNCHANGED <<graph, online, call, ref, pf, nextRoutePointIndexRef,
                 requests, hist>>

\* A frame with the GPS off, MaxTicks at most.
ReckonFrame ==
  /\ ~app.gpsActive
  /\ hist.ticks < MaxTicks
  /\ Frame(TRUE)

NextReckon ==
  \/ StartReckon
  \/ CompassTurns
  \/ ToggleGps
  \/ DeviceMotion
  \/ SaveCalibration
  \/ ReckonFrame

SpecReckon == Init /\ [][NextReckon]_vars

(***************************************************************************)
(* The marker's rotation: the compass sweeps through headings ten degrees  *)
(* apart in any order.                                                     *)
(***************************************************************************)
HeadingDeltaTimes == {17}
HeadingSamples == { 100 * k : k \in 0..35 }

StartHeading == StartLoopWith(HeadingDeltaTimes)
CompassSweeps == DeviceOrientationOf(HeadingSamples)

NextHeading ==
  \/ StartHeading
  \/ CompassSweeps

SpecHeading == Init /\ [][NextHeading]_vars

(***************************************************************************)
(* Properties of route installation (SpecNav).                             *)
(***************************************************************************)
\* C11: the first tick and the first maneuver detection that run on a newly
\* installed route use the index 1, never an index reached on the route
\* before.
C11_FirstReadUsesIndexOne ==
  /\ (hist.detection.ran /\ hist.detection.first) => hist.detection.idx = 1
  /\ (hist.tickRead.ran /\ hist.tickRead.first) => hist.tickRead.idx = 1

RouteResults(r) == { GetRouteResult(r, kind) : kind \in {"network", "offline"} }

\* C13 as stated: the installed route changes only at a step at which a
\* request resolves and its route is installed.
C13_RouteKeptWhileLoading ==
  [][app.routeCoordinates' # app.routeCoordinates =>
       Len(requests') < Len(requests)]_vars

\* C13, amended: the installed route changes only at a step that starts a
\* request, where it becomes empty, and at a step at which a request
\* resolves, where it becomes the whole route of that request.
C13_RouteClearedThenReplaced ==
  [][app.routeCoordinates' # app.routeCoordinates =>
       \/ /\ Len(requests') > Len(requests)
          /\ app.routeCoordinates' = <<>>
       \/ /\ Len(requests') < Len(requests)
          /\ \E i \in 1..Len(requests) :
               app.routeCoordinates' \in RouteResults(requests[i])]_vars

\* A request that started while a route was installed is outstanding and
\* the route is empty.
C13_Witness ==
  /\ hist.cleared
  /\ requests # <<>>
  /\ app.routeCoordinates = <<>>
  /\ app.targetLocation # <<>>

\* C20: once every outstanding request has resolved, the installed route is
\* a result of the request issued last.
C20_LatestRequestWins ==
  (requests = <<>> /\ hist.latest # <<>>) =>
    app.routeCoordinates \in RouteResults(hist.latest[1])

(***************************************************************************)
(* Properties of maneuver detection (SpecNav).                             *)
(***************************************************************************)
\* C16: while navigating with a route of more than one point the reported
\* maneuver is arrive exactly when the index is at or past the last route
\* index or the destination is nearer than 20 m, whatever turn lies ahead.
C16_ArriveOverridesTurns ==
  (app.navState = "NAVIGATING" /\ Len(app.routeCoordinates) > 1) =>
    (app.nextManeuver.type = "arrive"
       <=> \/ app.nextRoutePointIndex >= Len(app.routeCoordinates) - 1
           \/ DistToEnd(app) < 200)

\* Arrival is reported within 20 m of the destination although the index is
\* short of the last one and the route turns by more than 30 degrees ahead.
C16_Witness ==
  /\ app.navState = "NAVIGATING"
  /\ Len(app.routeCoordinates) > 3
  /\ app.nextRoutePointIndex < Len(app.routeCoordinates) - 2
  /\ DistToEnd(app) < 200
  /\ app.nextManeuver.type = "arrive"
  /\ ScanTurns(app.routeCoordinates, app.nextRoutePointIndex,
               Len(app.routeCoordinates) - 2, 0).found

DrivesAwayFacingSouth ==
  [][(FollowsRoute(app) /\ app.sensors.alpha = 1800 /\ app.frame = 17)
       => app'.currentLocation.lat < app.currentLocation.lat]_vars

\* The frame heads straight for the steering point of a straight route.
Cruising(a, index) ==
  /\ FollowsRoute(a)
  /\ FollowRoad(a, index, a.frame).curveAngle = 0
  /\ FollowRoad(a, index, a.frame).headingError = 0

\* C15: a frame on a straight route without heading error, taken with a
\* speed below the mode's cruising speed, raises the speed carried to the
\* next frame.
C15_SpeedKeepsRising ==
  [][(Cruising(app, nextRoutePointIndexRef)
        /\ app.currentSpeed < BaseMaxSpeed(app.mode))
       => app'.currentSpeed > app.currentSpeed]_vars

\* The speeds the ETA is probed with, in mm/s.
ProbeSpeeds == {0, 1, 499, 500, 501, 1400, 11100, 20000}

\* C17: the effective speed of the ETA is the current speed when that is at
\* least 0.5 m/s and the mode's speed otherwise, so it is at least 0.5 m/s
\* and the duration is finite and not negative.
C17_EtaSpeedFallsBack ==
  /\ \A s \in ProbeSpeeds, m \in TransportModes :
       /\ EffectiveSpeed(s, m) = (IF s >= 500 THEN s ELSE BaseMaxSpeed(m))
       /\ EffectiveSpeed(s, m) >= 500
  /\ etaDetails(app).effectiveSpeed
       = (IF app.currentSpeed >= 500 THEN app.currentSpeed
          ELSE BaseMaxSpeed(app.mode))
  /\ etaDetails(app).effectiveSpeed >= 500
  /\ etaDetails(app).seconds # Infinity
  /\ etaDetails(app).seconds >= 0

\* The ETA of a destination ahead while standing still.
C17_Witness ==
  /\ app.currentSpeed = 0
  /\ app.mode = "CAR"
  /\ app.targetLocation # <<>>
  /\ DistToEnd(app) > 0
  /\ etaDetails(app).effectiveSpeed = CAR_SPEED_MPS
  /\ etaDetails(app).seconds > 0

(***************************************************************************)
(* Further properties of the pathfinder (SpecPath).                        *)
(***************************************************************************)
\* The neighbor entry of node a that leads to node b.
EdgeBetween(a, b) ==
  LET ns == GraphGet(graph, a).neighbors
  IN ns[CHOOSE i \in 1..Len(ns) : ns[i].nodeId = b]

ChainSurfaces(c) == { EdgeBetween(c[i], c[i + 1]).surface : i \in 1..(Len(c) - 1) }

RECURSIVE ChainLength(_)
ChainLength(c) ==
  IF Len(c) < 2 THEN 0
  ELSE EdgeBetween(c[1], c[2]).weight + ChainLength(Tail(c))

RECURSIVE ChainCost(_, _)
ChainCost(c, options) ==
  IF Len(c) < 2 THEN 0
  ELSE EdgeCost(EdgeBetween(c[1], c[2]), options) + ChainCost(Tail(c), options)

\* The node paths of at most MaxChain nodes from a to b.
PathsBetween(a, b) ==
  { c \in UNION { Chains(k) : k \in 2..MaxChain } :
      c[1] = a /\ c[Len(c)] = b }

\* A pair of an all-paved and an all-unpaved path of the same length.
PavedAndUnpaved(a, b) ==
  { pair \in PathsBetween(a, b) \X PathsBetween(a, b) :
      /\ ChainSurfaces(pair[1]) = {"paved"}
      /\ ChainSurfaces(pair[2]) = {"unpaved"}
      /\ ChainLength(pair[1]) = ChainLength(pair[2]) }

\* C18: with preferPaved, when an all-paved and an all-unpaved path of the
\* same length join the start node and the end node, the returned route runs
\* along an all-paved path whose adjusted cost is not above that of the
\* all-paved alternative.
C18_PavedPathReturned ==
  (pf.op = "calculateOfflineRoute" /\ pf.options.defined
     /\ pf.options.preferPaved) =>
    \A pair \in PavedAndUnpaved(findNearestNode(pf.start),
                                findNearestNode(pf.end)) :
      /\ pf.out.nodePath # <<>>
      /\ AlongEdges(pf.out.nodePath)
      /\ pf.out.nodePath[1] = pair[1][1]
      /\ pf.out.nodePath[Len(pf.out.nodePath)] = pair[1][Len(pair[1])]
      /\ ChainSurfaces(pf.out.nodePath) = {"paved"}
      /\ ChainCost(pf.out.nodePath, pf.options)
           <= ChainCost(pair[1], pf.options)

NeighborEntries ==
  UNION { { graph[i].neighbors[k] : k \in 1..Len(graph[i].neighbors) } :
          i \in 1..Len(graph) }

\* C21: the cost of traversing an edge is its weight times 3 for an unpaved
\* edge under preferPaved, times 5 for a hilly edge under avoidHills and
\* times 2 for a paved edge when allowHighways is false, the factors
\* multiplied; without preferences it is the weight.
C21_PenaltiesStack ==
  pf.op = "calculateOfflineRoute" =>
    \A neighbor \in NeighborEntries :
      EdgeCost(neighbor, pf.options)
        = neighbor.weight
            * (IF pf.options.defined /\ pf.options.preferPaved
                  /\ neighbor.surface = "unpaved" THEN 3 ELSE 1)
            * (IF pf.options.defined /\ pf.options.avoidHills
                  /\ neighbor.isHilly THEN 5 ELSE 1)
            * (IF pf.options.defined /\ ~pf.options.allowHighways
                  /\ neighbor.surface = "paved" THEN 2 ELSE 1)

\* A search under preferPaved and avoidHills starts at a node with an
\* unpaved hilly edge, which costs 15 times its weight.
C21_Witness ==
  /\ pf.op = "calculateOfflineRoute"
  /\ pf.options.defined /\ pf.options.preferPaved /\ pf.options.avoidHills
  /\ LET ns == GraphGet(graph, findNearestNode(pf.start)).neighbors
     IN \E k \in 1..Len(ns) :
          /\ ns[k].surface = "unpaved"
          /\ ns[k].isHilly
          /\ ns[k].weight > 0
          /\ EdgeCost(ns[k], pf.options) = 15 * ns[k].weight


\* The neighbor entries of the node with the given id.
EntriesOf(id) ==
  { GraphGet(graph, id).neighbors[k] :
      k \in 1..Len(GraphGet(graph, id).neighbors) }

\* C28: in the constructed graph and after any sequence of
\* calculateOfflineRoute calls, the graph is the one the module body built
\* (same nodes, same neighbor lists), and every neighbor entry from a node A to
\* a node B has an entry from B to A with the same weight, surface and
\* hilliness.
C28_GraphSymmetricAndImmutable ==
  /\ graph = BuiltGraph
  /\ { graph[i].id : i \in 1..Len(graph) }
       = { RAW_NODES[i].id : i \in 1..Len(RAW_NODES) }
  /\ \A i \in 1..Len(graph) :
       \A entry \in EntriesOf(graph[i].id) :
         /\ GraphHas(graph, entry.nodeId)
         /\ \E back \in EntriesOf(entry.nodeId) :
              /\ back.nodeId = graph[i].id
              /\ back.weight = entry.weight
              /\ back.surface = entry.surface
              /\ back.isHilly = entry.isHilly

\* A search that popped a node has run over a graph with edges in both
\* directions between n1 and n2.
C28_Witness ==
  /\ pf.op = "calculateOfflineRoute"
  /\ pf.out.popped >= 1
  /\ \E entry \in EntriesOf("n1") : entry.nodeId = "n2" /\ entry.weight > 0
  /\ \E back \in EntriesOf("n2") : back.nodeId = "n1"


\* C29: every calculateOfflineRoute call returns through one of its return
\* statements after popping at most as many nodes as the graph holds, and
\* reconstructPath walks the back-pointers of a node path without visiting a
\* node twice and stops at the start node: the route holds the caller's start,
\* one coordinate per node of the path, the start node's first, no coordinate
\* twice, and the caller's end.
C29_SearchAndWalkTerminate ==
  /\ pf.op = "calculateOfflineRoute" =>
       /\ pf.out.exit \in {"unresolved", "same", "found", "exhausted"}
       /\ pf.out.popped <= Len(graph)
       /\ pf.out.exit \in {"unresolved", "same"} => pf.out.popped = 0
       /\ Len(pf.out.route) <= Len(graph) + 2
  /\ pf.op = "reconstructPath" =>
       LET route == pf.out.route
           startNode == GraphGet(graph, findNearestNode(pf.start))
       IN /\ Len(route) = Len(pf.chain) + 2
          /\ Len(route) <= Len(graph) + 2
          /\ route[2] = Coord(startNode.lat, startNode.lng)
          /\ \A i \in 2..(Len(route) - 1) :
               \A j \in 2..(Len(route) - 1) :
                 i # j => route[i] # route[j]
          /\ \A i \in 1..Len(pf.out.nodePath) :
               \A j \in 1..Len(pf.out.nodePath) :
                 i # j => pf.out.nodePath[i] # pf.out.nodePath[j]

\* A search between two different nodes has run its loop and returned.
C29_Witness ==
  /\ pf.op = "calculateOfflineRoute"
  /\ findNearestNode(pf.start) # findNearestNode(pf.end)
  /\ pf.out.popped >= 1
  /\ pf.out.exit \in {"found", "exhausted"}


(***************************************************************************)
(* Properties of the steering (SpecDrive).                                 *)
(***************************************************************************)
\* The shortest angular difference between two headings, in tenths of a
\* degree.
AngularDistance(h1, h2) ==
  LET spread == Abs(h1 - h2) % 3600
  IN IF spread > 1800 THEN 3600 - spread ELSE spread

\* C22: when two consecutive frames follow the route, the heading the second
\* one moves along differs from the heading of the first by at most the turn
\* rate max(35, 120 - 2.5 * speed) degrees per second times the frame time.
C22_HeadingTurnsWithinCap ==
  (hist.computed.kind = "follow" /\ hist.computed.prev # <<>>) =>
    AngularDistance(hist.computed.heading, hist.computed.prev[1])
      <= (Max(350, 1200 - hist.computed.speedBefore \div 40) * app.frame)
           \div 1000


\* Curve angles and heading errors the speed computation is probed with, in
\* tenths of a degree.
ProbeCurveAngles == {0, 1, 150, 272, 273, 900, 1800}
ProbeHeadingErrors == {-1800, -450, -1, 0, 1, 980, 1800}

\* The nominal cruising speed of a transport mode (constants.ts lines
\* 27-29), in mm/s.
NominalSpeed(mode) ==
  IF mode = "CAR" THEN 11100 ELSE IF mode = "BIKE" THEN 5500 ELSE 1400

\* C27: after a frame that follows the route the computed speed is between
\* 0.5 m/s and the mode's nominal speed and the target speed is between 30%
\* and 100% of the nominal speed; the same holds of the speed computation for
\* every prior speed, frame time, curve angle and heading error probed.
C27_SpeedsWithinBounds ==
  /\ hist.computed.kind = "follow" =>
       /\ hist.computed.speed >= 500
       /\ hist.computed.speed <= NominalSpeed(app.mode)
       /\ hist.computed.targetSpeed * 10 >= NominalSpeed(app.mode) * 3
       /\ hist.computed.targetSpeed <= NominalSpeed(app.mode)
  /\ \A mode \in TransportModes, curveAngle \in ProbeCurveAngles,
        headingError \in ProbeHeadingErrors :
       LET targetSpeed == TargetSpeed(BaseMaxSpeed(mode), curveAngle,
                                      headingError)
       IN /\ targetSpeed * 10 >= NominalSpeed(mode) * 3
          /\ targetSpeed <= NominalSpeed(mode)
          /\ \A prior \in ProbeSpeeds, dt \in DriveDeltaTimes :
               LET speed == CalculatedSpeed(prior, targetSpeed,
                                            BaseMaxSpeed(mode), dt)
               IN speed >= 500 /\ speed <= NominalSpeed(mode)

\* A frame braked down to the floor of 0.5 m/s with the target speed at 30%
\* of the nominal speed.
C27_Witness ==
  /\ hist.computed.kind = "follow"
  /\ hist.computed.speedBefore > 500
  /\ hist.computed.speed = 500
  /\ hist.computed.targetSpeed * 10 = NominalSpeed(app.mode) * 3


(***************************************************************************)
(* Properties of maneuver detection.                                       *)
(***************************************************************************)
TurnTypes ==
  {"slight-left", "slight-right", "left", "right", "sharp-left", "sharp-right"}

\* The bearing change at the vertex v of a route (counted from 0): the
\* bearing of the segment that leaves it minus the bearing of the segment
\* that reaches it, within [-180, 180] degrees.
BearingChangeAt(route, v) ==
  NormalizeAngle(calculateBearing(At(route, v), At(route, v + 1))
                   - calculateBearing(At(route, v - 1), At(route, v)))

\* The summed lengths of the segments of a route between the points a and b.
RECURSIVE PathLength(_, _, _)
PathLength(route, a, b) ==
  IF a >= b THEN 0
  ELSE calculateDistance(At(route, a), At(route, a + 1))
         + PathLength(route, a + 1, b)

\* The vertices maneuver detection looks at from the index idx: at most 30,
\* each with a segment on either side, the path from the point at idx to the
\* vertex before being at most 1500 m long.
ScannedVertices(route, idx) ==
  { v \in (idx + 1)..Min(Len(route) - 2, idx + 30) :
      PathLength(route, idx, v - 1) <= 15000 }

\* The scanned vertices with a bearing change of more than 30 degrees.
TurningVertices(route, idx) ==
  { v \in ScannedVertices(route, idx) : Abs(BearingChangeAt(route, v)) > 300 }

\* The first of them in route order.
FirstTurn(route, idx) ==
  CHOOSE v \in TurningVertices(route, idx) :
    \A w \in TurningVertices(route, idx) : v <= w

\* C24: when maneuver detection reports a turn, the reported distance is the
\* direct distance from the current position to the route point at the
\* current index plus the summed lengths of the route segments from that
\* point up to the vertex at which the bearing changes.
C24_DistanceReachesTurnVertex ==
  app.nextManeuver.type \in TurnTypes =>
    /\ TurningVertices(app.routeCoordinates, app.nextRoutePointIndex) # {}
    /\ app.nextManeuver.distance
         = calculateDistance(app.currentLocation,
                             At(app.routeCoordinates, app.nextRoutePointIndex))
             + PathLength(app.routeCoordinates, app.nextRoutePointIndex,
                          FirstTurn(app.routeCoordinates,
                                    app.nextRoutePointIndex))


\* Whether maneuver detection gets as far as its scan: navigating on a route
\* of two points or more, the index before the last point and the
\* destination 20 m away or more.
Scans(a) ==
  /\ a.navState = "NAVIGATING"
  /\ Len(a.routeCoordinates) > 1
  /\ a.nextRoutePointIndex < Len(a.routeCoordinates) - 1
  /\ DistToEnd(a) >= 200

C26_DeadReckoning ==
  (hist.computed.kind = "free" /\ hist.computed.reckoned) =>
    LET read == hist.computed.sensors
        cal == hist.computed.calibration
        alpha == IF read.alpha = Absent THEN 0 ELSE read.alpha
        accX == (IF read.accX = Absent THEN 0 ELSE read.accX) - cal.accXOffset
        accY == (IF read.accY = Absent THEN 0 ELSE read.accY) - cal.accYOffset
        squared == accX * accX + accY * accY
        heading == (alpha + cal.alphaOffset + 3600) % 3600
        speed == hist.computed.speed
    IN /\ hist.computed.heading = heading
       /\ app.currentLocation = hist.computed.to
       /\ squared <= 1200 * 1200 =>
            /\ speed = 0
            /\ hist.computed.to = hist.computed.from
       /\ squared > 1200 * 1200 =>
            /\ speed <= 2100
            /\ speed = 2100 \/ squared < (2 * speed + 2) * (2 * speed + 2)
            /\ (2 * speed) * (2 * speed) <= squared
            /\ hist.computed.to
                 = calculateNewPosition(hist.computed.from,
                                        (speed * app.frame) \div 1000, heading)

\* A reckoned frame at the capped speed that moved the position, with a
\* calibration in force.
C26_Witness ==
  /\ hist.computed.kind = "free"
  /\ hist.computed.reckoned
  /\ hist.computed.speed = 2100
  /\ hist.computed.to # hist.computed.from
  /\ hist.computed.calibration.accXOffset # 0


(***************************************************************************)
(* Properties of the marker's rotation (SpecHeading).                      *)
(***************************************************************************)
\* C23: each time a heading arrives, the accumulated heading changes by the
\* signed shortest angular difference: by 180 degrees at most, and to a
\* value that differs from the new heading by whole turns.
C23_ShortestTurn ==
  [][app.hasStarted =>
       /\ Abs(visualHeadingRef' - visualHeadingRef) <= 1800
       /\ (visualHeadingRef' - SensorHeading(app')) % 3600 = 0]_vars

====
